---- MODULE Spec2Model ----
(***************************************************************************)
(* A model of the CRM GraphQL mutations (crm/schema.py) over the Django    *)
(* models of crm/models.py: the Customer, Product and Order tables, the    *)
(* order_products association table, and the requests in flight.           *)
(*                                                                         *)
(* Money is counted in cents (DecimalField(decimal_places=2)).  A request  *)
(* handler is a sequence of steps, one per database round trip that other  *)
(* requests can interleave with; the writes of a transaction.atomic()      *)
(* block are buffered in tx and reach the tables at commit.  The heartbeat *)
(* job of crm/cron.py runs in a request slot and appends to its log file.  *)
(***************************************************************************)
EXTENDS Integers, Sequences, FiniteSets, TLC

VARIABLES
    customers,       \* Customer table: id -> [email, phone]
    products,        \* Product table: id -> [price, stock]
    orders,          \* Order table: id -> [customer, total_amount]
    order_products,  \* association table: {<<order id, product id>>}
    nextId,          \* next AutoField value per table
    pc,              \* per request slot: the handler's position
    req,             \* per request slot: the mutation and its input
    tx,              \* per request slot: the handler's locals and buffered writes
    resp,            \* per request slot: the envelope returned by the last call
    heartbeat_log    \* /tmp/crm_heartbeat_log.txt: the lines appended so far

store == <<customers, products, orders, order_products, nextId>>
vars == <<customers, products, orders, order_products, nextId, pc, req, tx, resp,
          heartbeat_log>>

\* ------------------------------------------------------------------ bounds

NumCustomers == 1
NumProducts == 2
MaxLen == 2
MaxOrders == 1
MaxBulk == 3
MaxNewProducts == 2
MaxLogLines == 3

\* Request slots: two requests can be in flight at once.
Procs == {"r1", "r2"}
Single == {"r1"}

\* ----------------------------------------------------------------- helpers

Null == <<>>
Some(x) == <<x>>
NoResp == [op |-> "none"]
NoTx == [op |-> "none"]
NoReq == [op |-> "none"]

Range(s) == {s[i] : i \in DOMAIN s}

RECURSIVE SumOver(_, _)
SumOver(f, S) ==
    IF S = {} THEN 0
    ELSE LET x == CHOOSE y \in S : TRUE IN f[x] + SumOver(f, S \ {x})

Drop(f, S) == [x \in DOMAIN f \ S |-> f[x]]

Idle(p) == pc[p] \in {"idle", "done"}

\* ------------------------------------------------------------ seeded store

\* seed_db.py: the customers' emails, as local part, "@", domain.
SeededEmails ==
    << <<"alice", "@", "example.com">>,
       <<"bob", "@", "example.com">>,
       <<"carol", "@", "example.com">> >>

SeedEmail(i) ==
    IF i <= Len(SeededEmails) THEN SeededEmails[i]
    ELSE <<"user", "@", "example.com", i>>

SeedPhone(i) ==
    CASE i = 1 -> <<"+", "1", "2", "3", "4", "5", "6", "7", "8", "9", "0">>
      [] i = 2 -> <<"1", "2", "3", "-", "4", "5", "6", "-", "7", "8", "9", "0">>
      [] OTHER -> <<>>

SeedPrice(i) ==
    CASE i = 1 -> 99999
      [] i = 2 -> 2550
      [] i = 3 -> 7500
      [] OTHER -> 100 * i + 1

SeedStock(i) ==
    CASE i = 1 -> 10
      [] i = 2 -> 50
      [] i = 3 -> 25
      [] OTHER -> 0

\* ------------------------------------------------------------ CreateOrder

\* with transaction.atomic(): the block's writes commit together or not at all.
NoAtomicBlock == FALSE
AtomicBlock == TRUE

\* Customer.objects.get(id=input.customer_id), DoesNotExist caught.
CustomerLookupSkipped(cid) == <<>>
CustomerLookupErrors(cid) ==
    IF cid \in DOMAIN customers
    THEN <<>>
    ELSE << <<"Customer with ID", cid, "does not exist">> >>

\* Product.objects.filter(id__in=ids): each matching row once.
RequestedProducts(ids) == Range(ids)
ExistingProducts(ids) == {i \in Range(ids) : i \in DOMAIN products}

ProductLookupErrors(ids) ==
    IF ids = <<>>
    THEN << <<"At least one product must be specified">> >>
    ELSE IF Cardinality(ExistingProducts(ids)) # Len(ids)
         THEN << <<"Products with IDs", Range(ids) \ ExistingProducts(ids),
                   "do not exist">> >>
         ELSE <<>>

OrderErrors(cid, ids) == CustomerLookupErrors(cid) \o ProductLookupErrors(ids)

OrderFailure(message, errors) ==
    [op |-> "CreateOrder", order |-> Null, success |-> FALSE,
     message |-> message, errors |-> errors]

OrderSuccess(order) ==
    [op |-> "CreateOrder", order |-> Some(order), success |-> TRUE,
     message |-> "Order created successfully", errors |-> <<>>]

\* Lines 210-234: both validations, then the early return.
CreateOrderRowFirst(p, cid, ids) ==
    /\ Idle(p)
    /\ UNCHANGED heartbeat_log
    /\ UNCHANGED <<tx, customers, products, order_products, nextId>>
    /\ LET errors == OrderErrors(cid, ids) IN
         IF errors # <<>>
         THEN /\ pc' = [pc EXCEPT ![p] = "done"]
              /\ req' = [req EXCEPT ![p] = NoReq]
              /\ resp' = [resp EXCEPT ![p] = OrderFailure("Validation failed", errors)]
              /\ orders' = (nextId.order :> [customer |-> cid, total_amount |-> 0]) @@ orders
         ELSE /\ pc' = [pc EXCEPT ![p] = "order_create"]
              /\ req' = [req EXCEPT ![p] = [op |-> "CreateOrder", customer_id |-> cid,
                                            product_ids |-> ids]]
              /\ resp' = [resp EXCEPT ![p] = NoResp]
              /\ orders' = orders
CreateOrderValidate(p, cid, ids) ==
    /\ Idle(p)
    /\ UNCHANGED heartbeat_log
    /\ UNCHANGED tx
    /\ UNCHANGED store
    /\ LET errors == OrderErrors(cid, ids) IN
         IF errors # <<>>
         THEN /\ pc' = [pc EXCEPT ![p] = "done"]
              /\ req' = [req EXCEPT ![p] = NoReq]
              /\ resp' = [resp EXCEPT ![p] = OrderFailure("Validation failed", errors)]
         ELSE /\ pc' = [pc EXCEPT ![p] = "order_create"]
              /\ req' = [req EXCEPT ![p] = [op |-> "CreateOrder", customer_id |-> cid,
                                            product_ids |-> ids]]
              /\ resp' = [resp EXCEPT ![p] = NoResp]

\* The rows of a transaction as the tables would hold them.
OnlyOrderRow(o) == o.id :> [customer |-> o.customer, total_amount |-> o.total_amount]
WithOrderRow(o) == (o.id :> [customer |-> o.customer, total_amount |-> o.total_amount]) @@ orders

\* A foreign key of the buffered rows that no longer has its target.
BrokenReference(t) ==
    \/ t.order.customer \notin DOMAIN customers
    \/ \E r \in t.rows : r[2] \notin DOMAIN products

\* The calls whose atomic block is open beside p's: MaxOrders bounds the
\* orders made one after another, each call in flight beside gets its id.
OthersInFlight(p) ==
    {q \in Procs \ {p} : pc[q] \in {"order_create", "order_set", "order_total", "order_commit"}}

\* Lines 240-243: Order.objects.create(customer=customer, total_amount=0).
OrderCreateRow(p) ==
    /\ pc[p] = "order_create"
    /\ UNCHANGED heartbeat_log
    /\ nextId.order <= MaxOrders + Cardinality(OthersInFlight(p))
    /\ LET o == [id |-> nextId.order, customer |-> req[p].customer_id, total_amount |-> 0] IN
         /\ tx' = [tx EXCEPT ![p] = [op |-> "CreateOrder", order |-> o, rows |-> {},
                                     products |-> <<>>]]
         /\ orders' = IF AtomicBlock THEN orders ELSE WithOrderRow(o)
    /\ nextId' = [nextId EXCEPT !.order = @ + 1]
    /\ pc' = [pc EXCEPT ![p] = "order_set"]
    /\ UNCHANGED <<customers, products, order_products, req, resp>>

\* Lines 246-247: the queryset is evaluated here, once, and its rows kept.
OrderSetProducts(p) ==
    /\ pc[p] = "order_set"
    /\ UNCHANGED heartbeat_log
    /\ LET found == ExistingProducts(req[p].product_ids)
           rows == {<<tx[p].order.id, i>> : i \in found} IN
         /\ tx' = [tx EXCEPT ![p].rows = rows,
                             ![p].products = [i \in found |-> products[i]]]
         /\ order_products' = IF AtomicBlock THEN order_products
                              ELSE order_products \cup rows
    /\ pc' = [pc EXCEPT ![p] = "order_total"]
    /\ UNCHANGED <<customers, products, orders, nextId, req, resp>>

\* Line 250: sum(product.price for product in products).
OrderTotal(t) ==
    SumOver([i \in DOMAIN t.products |-> t.products[i].price], DOMAIN t.products)

\* Lines 250-252: compute the total and order.save().
OrderSaveTotal(p) ==
    /\ pc[p] = "order_total"
    /\ UNCHANGED heartbeat_log
    /\ LET o == [tx[p].order EXCEPT !.total_amount = OrderTotal(tx[p])] IN
         /\ tx' = [tx EXCEPT ![p].order = o]
         /\ orders' = IF AtomicBlock \/ o.id \notin DOMAIN orders THEN orders
                      ELSE WithOrderRow(o)
    /\ pc' = [pc EXCEPT ![p] = "order_commit"]
    /\ UNCHANGED <<customers, products, order_products, nextId, req, resp>>

\* Lines 254-267: the return leaves the atomic block, which commits; the
\* deferred foreign-key check fails the commit when a referenced row is gone.
OrderCommit(p) ==
    /\ pc[p] = "order_commit"
    /\ UNCHANGED heartbeat_log
    /\ IF AtomicBlock /\ BrokenReference(tx[p])
       THEN /\ resp' = [resp EXCEPT ![p] =
                          OrderFailure("Error creating order", << <<"IntegrityError">> >>)]
            /\ UNCHANGED <<orders, order_products>>
       ELSE /\ resp' = [resp EXCEPT ![p] = OrderSuccess(tx[p].order)]
            /\ orders' = IF AtomicBlock THEN WithOrderRow(tx[p].order) ELSE orders
            /\ order_products' = IF AtomicBlock THEN order_products \cup tx[p].rows
                                 ELSE order_products
    /\ pc' = [pc EXCEPT ![p] = "done"]
    /\ req' = [req EXCEPT ![p] = NoReq]
    /\ tx' = [tx EXCEPT ![p] = NoTx]
    /\ UNCHANGED <<customers, products, nextId>>

\* Lines 261-267: a statement of the block raises; the block rolls back
\* and the handler returns the fault's text.
OrderFault(p) ==
    /\ pc[p] \in {"order_create", "order_set", "order_total", "order_commit"}
    /\ UNCHANGED heartbeat_log
    /\ resp' = [resp EXCEPT ![p] =
                  OrderFailure("Error creating order", << <<"StorageFault">> >>)]
    /\ pc' = [pc EXCEPT ![p] = "done"]
    /\ req' = [req EXCEPT ![p] = NoReq]
    /\ tx' = [tx EXCEPT ![p] = NoTx]
    /\ UNCHANGED store

\* ---------------------------------------------------------- phone format

Digits == {"0", "1", "2", "3", "4", "5", "6", "7", "8", "9"}
Separators == {"-", "."}

\* A text is a sequence of characters; a position is the index of the next
\* character to read.  Each operator maps the positions a match can have
\* reached to the positions it can reach after one more piece of the pattern.
OneOf(s, P, chars) == {i + 1 : i \in {j \in P : j <= Len(s) /\ s[j] \in chars}}

Optional(s, P, chars) == P \cup OneOf(s, P, chars)

RECURSIVE Repeat(_, _, _, _)
Repeat(s, P, chars, n) == IF n = 0 THEN P ELSE Repeat(s, OneOf(s, P, chars), chars, n - 1)

\* (\+\d{1,3}[-.]?)?
CountryCode(s, P) ==
    LET plus == OneOf(s, P, {"+"})
        code == Repeat(s, plus, Digits, 1) \cup Repeat(s, plus, Digits, 2)
                    \cup Repeat(s, plus, Digits, 3)
    IN P \cup Optional(s, code, Separators)

\* re.match(r'^(\+\d{1,3}[-.]?)?\(?\d{3}\)?[-.]?\d{3}[-.]?\d{4}$', phone);
\* "$" also matches before a final line break.
PhoneMatches(s) ==
    LET area == Optional(s, Repeat(s, Optional(s, CountryCode(s, {1}), {"("}), Digits, 3), {")"})
        mid == Repeat(s, Optional(s, area, Separators), Digits, 3)
        ends == Repeat(s, Optional(s, mid, Separators), Digits, 4)
    IN \/ Len(s) + 1 \in ends
       \/ Len(s) \in ends /\ s[Len(s)] = "\n"

\* ----------------------------------------------------------- CreateCustomer

\* The two copies of the mutations: alx_backend_graphql/crm/schema.py and
\* alx_backend_graphql_crm/crm.
Copies == {"alx_backend_graphql", "alx_backend_graphql_crm"}

\* Customer.email is unique=True: the table refuses a second row with it.
NoUniqueEmail == FALSE
UniqueEmail == TRUE

\* Customer.objects.filter(email=email).exists()
EmailNeverExists(email) == FALSE
EmailExists(email) == \E c \in DOMAIN customers : customers[c].email = email

\* "if input.phone:": None and "" are skipped.
PhoneGiven(phone) == phone # Null /\ phone[1] # <<>>

\* "input.phone or ''"
StoredPhone(phone) == IF PhoneGiven(phone) THEN phone[1] ELSE <<>>

EmailErrors(email) ==
    IF EmailExists(email) THEN << <<"Email already exists">> >> ELSE <<>>

PhoneErrors(phone) ==
    IF PhoneGiven(phone) /\ ~PhoneMatches(phone[1])
    THEN << <<"Invalid phone format. Use +1234567890 or 123-456-7890">> >>
    ELSE <<>>

CustomerInputErrors(input) == EmailErrors(input.email) \o PhoneErrors(input.phone)

\* The early return: schema.py lines 76-81 pass no errors, the crm copy
\* (lines 156-162) passes them.
CustomerRejected(v, errors) ==
    IF v = "alx_backend_graphql"
    THEN [op |-> "CreateCustomer", customer |-> Null, success |-> FALSE,
          message |-> "Validation failed"]
    ELSE [op |-> "CreateCustomer", customer |-> Null, success |-> FALSE,
          message |-> "Validation failed", errors |-> errors]

CustomerFailure(text) ==
    [op |-> "CreateCustomer", customer |-> Null, success |-> FALSE,
     message |-> "Error creating customer", errors |-> << <<text>> >>]

CustomerSuccess(c) ==
    [op |-> "CreateCustomer", customer |-> Some(c), success |-> TRUE,
     message |-> "Customer created successfully", errors |-> <<>>]

\* Lines 66-81: both validations, then the early return.
CreateCustomerValidate(p, v, input) ==
    /\ Idle(p)
    /\ UNCHANGED heartbeat_log
    /\ LET errors == CustomerInputErrors(input) IN
         IF errors # <<>>
         THEN /\ pc' = [pc EXCEPT ![p] = "done"]
              /\ req' = [req EXCEPT ![p] = NoReq]
              /\ resp' = [resp EXCEPT ![p] = CustomerRejected(v, errors)]
         ELSE /\ pc' = [pc EXCEPT ![p] = "customer_create"]
              /\ req' = [req EXCEPT ![p] = [op |-> "CreateCustomer", input |-> input]]
              /\ resp' = [resp EXCEPT ![p] = NoResp]
    /\ UNCHANGED <<store, tx>>

\* The row Customer.objects.create(...) inserts.
NewCustomer(input) ==
    [id |-> nextId.customer, email |-> input.email, phone |-> StoredPhone(input.phone)]

WithCustomerRow(c) == (c.id :> [email |-> c.email, phone |-> c.phone]) @@ customers

\* Lines 83-101: Customer.objects.create inside try/except.
CreateCustomerInsert(p) ==
    /\ pc[p] = "customer_create"
    /\ UNCHANGED heartbeat_log
    /\ IF UniqueEmail /\ EmailExists(req[p].input.email)
       THEN /\ resp' = [resp EXCEPT ![p] = CustomerFailure("IntegrityError")]
            /\ UNCHANGED <<customers, nextId>>
       ELSE /\ resp' = [resp EXCEPT ![p] = CustomerSuccess(NewCustomer(req[p].input))]
            /\ customers' = WithCustomerRow(NewCustomer(req[p].input))
            /\ nextId' = [nextId EXCEPT !.customer = @ + 1]
    /\ pc' = [pc EXCEPT ![p] = "done"]
    /\ req' = [req EXCEPT ![p] = NoReq]
    /\ UNCHANGED <<products, orders, order_products, tx>>

\* Lines 95-101: the create raises a storage fault.
CreateCustomerFault(p) ==
    /\ pc[p] = "customer_create"
    /\ UNCHANGED heartbeat_log
    /\ resp' = [resp EXCEPT ![p] = CustomerFailure("StorageFault")]
    /\ pc' = [pc EXCEPT ![p] = "done"]
    /\ req' = [req EXCEPT ![p] = NoReq]
    /\ UNCHANGED <<store, tx>>

\* ------------------------------------------------------ BulkCreateCustomers

\* Lines 112-113: the accumulators; i counts the items enumerate() has given.
BulkStart == [op |-> "BulkCreateCustomers", i |-> 0, created_customers |-> <<>>,
              errors |-> <<>>]

\* errors.append(...) and on to the next item.
ItemFailedAbort(t, error) ==
    [t EXCEPT !.i = @ + 1, !.errors = Append(@, error), !.created_customers = <<>>]
ItemFailed(t, error) == [t EXCEPT !.i = @ + 1, !.errors = Append(@, error)]

\* created_customers.append(customer)
ItemCreatedFirst(t, c) == [t EXCEPT !.i = @ + 1, !.created_customers = <<c>> \o @]
ItemCreated(t, c) == [t EXCEPT !.i = @ + 1, !.created_customers = Append(@, c)]

BulkBegin(p) ==
    /\ Idle(p)
    /\ UNCHANGED heartbeat_log
    /\ pc' = [pc EXCEPT ![p] = "bulk_loop"]
    /\ req' = [req EXCEPT ![p] = NoReq]
    /\ tx' = [tx EXCEPT ![p] = BulkStart]
    /\ resp' = [resp EXCEPT ![p] = NoResp]
    /\ UNCHANGED store

\* Lines 115-132: one turn of the loop.  The list is read front to back, so
\* each turn draws its item.
BulkItem(p, input) ==
    /\ pc[p] = "bulk_loop"
    /\ UNCHANGED heartbeat_log
    /\ tx[p].i < MaxBulk
    /\ IF EmailExists(input.email)
       THEN /\ tx' = [tx EXCEPT ![p] = ItemFailed(tx[p],
                         <<"Customer", tx[p].i + 1, "Email", input.email, "already exists">>)]
            /\ UNCHANGED <<customers, nextId>>
       ELSE IF PhoneGiven(input.phone) /\ ~PhoneMatches(input.phone[1])
       THEN /\ tx' = [tx EXCEPT ![p] = ItemFailed(tx[p],
                         <<"Customer", tx[p].i + 1, "Invalid phone format">>)]
            /\ UNCHANGED <<customers, nextId>>
       ELSE /\ tx' = [tx EXCEPT ![p] = ItemCreated(tx[p], NewCustomer(input))]
            /\ customers' = WithCustomerRow(NewCustomer(input))
            /\ nextId' = [nextId EXCEPT !.customer = @ + 1]
    /\ UNCHANGED <<products, orders, order_products, pc, req, resp>>

\* Lines 134-135: a statement of the turn raises.
BulkItemFault(p) ==
    /\ pc[p] = "bulk_loop"
    /\ UNCHANGED heartbeat_log
    /\ tx[p].i < MaxBulk
    /\ tx' = [tx EXCEPT ![p] = ItemFailed(tx[p], <<"Customer", tx[p].i + 1, "StorageFault">>)]
    /\ UNCHANGED <<store, pc, req, resp>>

\* Lines 137-141: the list is exhausted.
BulkReturn(p) ==
    /\ pc[p] = "bulk_loop"
    /\ UNCHANGED heartbeat_log
    /\ resp' = [resp EXCEPT ![p] =
                  [op |-> "BulkCreateCustomers",
                   customers |-> tx[p].created_customers,
                   errors |-> tx[p].errors,
                   success_count |-> Len(tx[p].created_customers)]]
    /\ pc' = [pc EXCEPT ![p] = "done"]
    /\ tx' = [tx EXCEPT ![p] = NoTx]
    /\ UNCHANGED <<store, req>>

\* ------------------------------------------------------------ CreateProduct

\* An input price is a Decimal, counted here in thousandths; the price
\* column keeps 2 fraction digits, counted in cents.  The row is written
\* with the value quantized to the column's scale; a value halfway between
\* two cents is rounded by the database backend, to either neighbour.
StoredPrices(price) ==
    LET q == price \div 10
        r == price % 10
    IN IF r < 5 THEN {q}
       ELSE IF r > 5 THEN {q + 1}
       ELSE {q, q + 1}

\* "input.stock if input.stock is not None else 0"
StoredStock(stock) == IF stock = Null THEN 0 ELSE stock[1]

PriceErrors(price) ==
    IF price <= 0 THEN << <<"Price must be positive">> >> ELSE <<>>

StockUnchecked(stock) == <<>>
StockErrors(stock) ==
    IF stock # Null /\ stock[1] < 0 THEN << <<"Stock cannot be negative">> >> ELSE <<>>

ProductInputErrors(input) == PriceErrors(input.price) \o StockErrors(input.stock)

ProductFailure(message, errors) ==
    [op |-> "CreateProduct", product |-> Null, success |-> FALSE,
     message |-> message, errors |-> errors]

\* The returned product is the instance create() built: it holds the price
\* as given, the row holds the stored price.
ProductSuccess(id, input) ==
    [op |-> "CreateProduct",
     product |-> Some([id |-> id, price |-> input.price, stock |-> StoredStock(input.stock)]),
     success |-> TRUE, message |-> "Product created successfully", errors |-> <<>>]

\* Lines 156-187: the validations, the early return, Product.objects.create.
CreateProduct(p, input) ==
    /\ Idle(p)
    /\ UNCHANGED heartbeat_log
    /\ LET errors == ProductInputErrors(input) IN
         IF errors # <<>>
         THEN /\ resp' = [resp EXCEPT ![p] = ProductFailure("Validation failed", errors)]
              /\ UNCHANGED <<products, nextId>>
         ELSE /\ nextId.product <= NumProducts + MaxNewProducts
              /\ \E cents \in StoredPrices(input.price) :
                   products' = (nextId.product :>
                                   [price |-> cents, stock |-> StoredStock(input.stock)])
                               @@ products
              /\ nextId' = [nextId EXCEPT !.product = @ + 1]
              /\ resp' = [resp EXCEPT ![p] = ProductSuccess(nextId.product, input)]
    /\ pc' = [pc EXCEPT ![p] = "done"]
    /\ UNCHANGED <<customers, orders, order_products, req, tx>>

\* Lines 189-195: the create raises a storage fault.
CreateProductFault(p, input) ==
    /\ Idle(p)
    /\ UNCHANGED heartbeat_log
    /\ ProductInputErrors(input) = <<>>
    /\ resp' = [resp EXCEPT ![p] =
                  ProductFailure("Error creating product", << <<"StorageFault">> >>)]
    /\ pc' = [pc EXCEPT ![p] = "done"]
    /\ UNCHANGED <<store, req, tx>>

\* ------------------------------------------------- faults of the reads

\* A call that ended with an exception leaving mutate: no envelope is built.
Raised(op, text) == [op |-> op, raised |-> text]

\* Line 68: the email-exists query raises; the statement is outside the try.
CreateCustomerReadFault(p) ==
    /\ Idle(p)
    /\ UNCHANGED heartbeat_log
    /\ resp' = [resp EXCEPT ![p] = Raised("CreateCustomer", "StorageFault")]
    /\ pc' = [pc EXCEPT ![p] = "done"]
    /\ UNCHANGED <<store, req, tx>>

\* Lines 213-224: the customer lookup catches Customer.DoesNotExist alone, the
\* product filter, count and values_list are outside any try.
CreateOrderReadFault(p) ==
    /\ Idle(p)
    /\ UNCHANGED heartbeat_log
    /\ resp' = [resp EXCEPT ![p] = Raised("CreateOrder", "StorageFault")]
    /\ pc' = [pc EXCEPT ![p] = "done"]
    /\ UNCHANGED <<store, req, tx>>

\* ------------------------------------------------------------- deletions

\* Customer.delete(): Order.customer is on_delete=CASCADE.
DeleteCustomerOnly(c) ==
    /\ c \in DOMAIN customers
    /\ UNCHANGED heartbeat_log
    /\ customers' = Drop(customers, {c})
    /\ UNCHANGED <<products, orders, order_products, nextId, pc, req, tx, resp>>
DeleteCustomer(c) ==
    /\ c \in DOMAIN customers
    /\ UNCHANGED heartbeat_log
    /\ LET gone == {o \in DOMAIN orders : orders[o].customer = c} IN
         /\ customers' = Drop(customers, {c})
         /\ orders' = Drop(orders, gone)
         /\ order_products' = {r \in order_products : r[1] \notin gone}
    /\ UNCHANGED <<products, nextId, pc, req, tx, resp>>

\* Product.delete(): the many-to-many rows go, the orders stay.
DeleteProduct(i) ==
    /\ i \in DOMAIN products
    /\ UNCHANGED heartbeat_log
    /\ products' = Drop(products, {i})
    /\ order_products' = {r \in order_products : r[2] # i}
    /\ UNCHANGED <<customers, orders, nextId, pc, req, tx, resp>>

\* Product.save() of a row whose price was changed: Product has no save
\* override and no model refers to the price, so the row alone is written.
SaveProductPriceLive(i, price) ==
    /\ i \in DOMAIN products
    /\ UNCHANGED heartbeat_log
    /\ products[i].price # price
    /\ products' = [products EXCEPT ![i].price = price]
    /\ orders' = [o \in DOMAIN orders |->
                    IF <<o, i>> \in order_products
                    THEN [orders[o] EXCEPT !.total_amount = @ - products[i].price + price]
                    ELSE orders[o]]
    /\ UNCHANGED <<customers, order_products, nextId, pc, req, tx, resp>>
SaveProductPrice(i, price) ==
    /\ i \in DOMAIN products
    /\ UNCHANGED heartbeat_log
    /\ products[i].price # price
    /\ products' = [products EXCEPT ![i].price = price]
    /\ UNCHANGED <<customers, orders, order_products, nextId, pc, req, tx, resp>>

\* ------------------------------------------------------- order workflow

CustomerIdInputs == 1 .. NumCustomers + 1
ProductIdInputs == 1 .. NumProducts + 1
\* The handler reads product_ids only through len() and set(): the lists are
\* drawn up to the order of their entries.
ProductIdLists ==
    {ids \in UNION {[1 .. n -> ProductIdInputs] : n \in 0 .. MaxLen} :
        \A i \in 1 .. Len(ids) - 1 : ids[i] <= ids[i + 1]}

\* The emails and phones requests are made with: CustomerInput.email is a
\* String, so a text without "@" is an input as well.
Emails == Range(SeededEmails) \cup {<<"invalid-email">>}

Phones ==
    {Null,
     Some(<<>>),
     Some(<<"1", "2", "3", "4", "5">>),
     Some(<<"+", "1", "2", "3", "4", "5", "6", "7", "8", "9", "0">>),
     Some(<<"1", "2", "3", "-", "4", "5", "6", "-", "7", "8", "9", "0">>)}

CustomerInputs == [email : Emails, phone : Phones]

\* Prices in thousandths: -1.00, 0, 0.001, 0.005, 0.019, 2.55.
PriceInputs == {-1000, 0, 1, 5, 19, 2550}

StockInputs == {Null, Some(-1), Some(0), Some(5)}

ProductInputs == [price : PriceInputs, stock : StockInputs]

Init ==
    /\ customers = [i \in 1 .. NumCustomers |-> [email |-> SeedEmail(i), phone |-> SeedPhone(i)]]
    /\ products = [i \in 1 .. NumProducts |-> [price |-> SeedPrice(i), stock |-> SeedStock(i)]]
    /\ orders = <<>>
    /\ order_products = {}
    /\ nextId = [customer |-> NumCustomers + 1, product |-> NumProducts + 1, order |-> 1]
    /\ pc = [p \in Procs |-> "idle"]
    /\ req = [p \in Procs |-> NoReq]
    /\ tx = [p \in Procs |-> NoTx]
    /\ resp = [p \in Procs |-> NoResp]
    /\ heartbeat_log = <<>>

Next ==
    \/ \E p \in Single, cid \in CustomerIdInputs, ids \in ProductIdLists :
         CreateOrderValidate(p, cid, ids)
    \/ \E p \in Single : OrderCreateRow(p)
    \/ \E p \in Single : OrderSetProducts(p)
    \/ \E p \in Single : OrderSaveTotal(p)
    \/ \E p \in Single : OrderCommit(p)
    \/ \E p \in Single : OrderFault(p)
    \/ \E c \in CustomerIdInputs : DeleteCustomer(c)
    \/ \E i \in ProductIdInputs : DeleteProduct(i)

\* The order workflow: one request at a time, rows deleted under it.
Spec == Init /\ [][Next]_vars

NextCustomer ==
    \/ \E p \in Procs, v \in Copies, input \in CustomerInputs :
         CreateCustomerValidate(p, v, input)
    \/ \E p \in Procs : CreateCustomerInsert(p)
    \/ \E p \in Procs : CreateCustomerFault(p)

\* Customer creation: two requests in flight.
SpecCustomer == Init /\ [][NextCustomer]_vars

NextBulk ==
    \/ \E p \in Single : BulkBegin(p)
    \/ \E p \in Single, input \in CustomerInputs : BulkItem(p, input)
    \/ \E p \in Single : BulkItemFault(p)
    \/ \E p \in Single : BulkReturn(p)

\* Bulk customer creation: one request at a time.
SpecBulk == Init /\ [][NextBulk]_vars

NextCreation ==
    \/ \E p \in Single, v \in Copies, input \in CustomerInputs :
         CreateCustomerValidate(p, v, input)
    \/ \E p \in Single : CreateCustomerInsert(p)
    \/ \E p \in Single : CreateCustomerFault(p)
    \/ \E p \in Single : BulkBegin(p)
    \/ \E p \in Single, input \in CustomerInputs : BulkItem(p, input)
    \/ \E p \in Single : BulkItemFault(p)
    \/ \E p \in Single : BulkReturn(p)

\* Customer creation by either mutation, one request at a time.
SpecCreation == Init /\ [][NextCreation]_vars

NextProduct ==
    \/ \E p \in Single, input \in ProductInputs : CreateProduct(p, input)
    \/ \E p \in Single, input \in ProductInputs : CreateProductFault(p, input)

\* Product creation, one request at a time.
SpecProduct == Init /\ [][NextProduct]_vars

\* The inputs of the workflow with faults: an existing and a new email, an
\* absent and a malformed phone, a rejected and an accepted product, product
\* lists of at most one id.
FaultCustomerInputs ==
    {input \in CustomerInputs :
        /\ input.email \in {SeededEmails[1], SeededEmails[2]}
        /\ input.phone \in {Null, Some(<<"1", "2", "3", "4", "5">>)}}

FaultProductInputs == {input \in ProductInputs : input.price \in {0, 2550} /\ input.stock = Null}

FaultProductIdLists == {ids \in ProductIdLists : Len(ids) <= 1}

NextFaults ==
    \/ \E p \in Single, v \in Copies, input \in FaultCustomerInputs :
         CreateCustomerValidate(p, v, input)
    \/ \E p \in Single : CreateCustomerInsert(p)
    \/ \E p \in Single : CreateCustomerFault(p)
    \/ \E p \in Single : CreateCustomerReadFault(p)
    \/ \E p \in Single : BulkBegin(p)
    \/ \E p \in Single, input \in FaultCustomerInputs : BulkItem(p, input)
    \/ \E p \in Single : BulkItemFault(p)
    \/ \E p \in Single : BulkReturn(p)
    \/ \E p \in Single, input \in FaultProductInputs : CreateProduct(p, input)
    \/ \E p \in Single, input \in FaultProductInputs : CreateProductFault(p, input)
    \/ \E p \in Single, cid \in CustomerIdInputs, ids \in FaultProductIdLists :
         CreateOrderValidate(p, cid, ids)
    \/ \E p \in Single : OrderCreateRow(p)
    \/ \E p \in Single : OrderSetProducts(p)
    \/ \E p \in Single : OrderSaveTotal(p)
    \/ \E p \in Single : OrderCommit(p)
    \/ \E p \in Single : OrderFault(p)
    \/ \E p \in Single : CreateOrderReadFault(p)

\* The four mutations, one request at a time, with faults of the storage
\* layer at every statement that reaches it.
SpecFaults == Init /\ [][NextFaults]_vars

NextReject ==
    \/ \E p \in Single, cid \in CustomerIdInputs, ids \in FaultProductIdLists :
         CreateOrderValidate(p, cid, ids)
    \/ \E p \in Single : OrderCreateRow(p)
    \/ \E p \in Single : OrderSetProducts(p)
    \/ \E p \in Single : OrderSaveTotal(p)
    \/ \E p \in Single : OrderCommit(p)
    \/ \E p \in Single : OrderFault(p)
    \/ \E c \in CustomerIdInputs : DeleteCustomer(c)
    \/ \E i \in ProductIdInputs : DeleteProduct(i)

\* The order workflow with orders of at most one product: the stores a
\* request can be rejected in.
SpecReject == Init /\ [][NextReject]_vars

\* The price a product is changed to: one the seeded products do not have.
NewPrices == {SeedPrice(NumProducts + 1)}

\* The orders whose products change: of product 1 and any others.
SnapshotProductIdLists == {ids \in ProductIdLists : ids = <<>> \/ ids[1] = 1}

NextSnapshot ==
    \/ \E p \in Single, cid \in CustomerIdInputs, ids \in SnapshotProductIdLists :
         CreateOrderValidate(p, cid, ids)
    \/ \E p \in Single : OrderCreateRow(p)
    \/ \E p \in Single : OrderSetProducts(p)
    \/ \E p \in Single : OrderSaveTotal(p)
    \/ \E p \in Single : OrderCommit(p)
    \/ \E i \in ProductIdInputs : DeleteProduct(i)
    \/ \E i \in ProductIdInputs, price \in NewPrices : SaveProductPrice(i, price)

\* The order workflow with the attached products changing under the orders:
\* a product is deleted or gets another price.
SpecSnapshot == Init /\ [][NextSnapshot]_vars

\* A request of an existing customer and existing products, none of them
\* among the products of the request in flight in another slot.
DisjointValidRequest(p, cid, ids) ==
    /\ cid \in DOMAIN customers
    /\ ids # <<>>
    /\ Range(ids) \subseteq DOMAIN products
    /\ \A q \in Procs \ {p} :
         req[q].op = "CreateOrder" => Range(ids) \cap Range(req[q].product_ids) = {}

NextConcurrent ==
    \/ \E p \in Procs, cid \in CustomerIdInputs, ids \in ProductIdLists :
         DisjointValidRequest(p, cid, ids) /\ CreateOrderValidate(p, cid, ids)
    \/ \E p \in Procs : OrderCreateRow(p)
    \/ \E p \in Procs : OrderSetProducts(p)
    \/ \E p \in Procs : OrderSaveTotal(p)
    \/ \E p \in Procs : OrderCommit(p)

\* Two CreateOrder requests in flight, over a store nothing else changes.
SpecConcurrent == Init /\ [][NextConcurrent]_vars

\* ------------------------------------------------------------------ queries

\* "if price_gte:" and its like: an argument that is absent, or 0, is falsy.
Truthy(x) == x # Null /\ x[1] # 0

\* Query.resolve_products, lines 391-409: the filters the resolver adds to
\* Product.objects.all(); name_icontains and the order of the rows apart.
ResolveProducts(args) ==
    {i \in DOMAIN products :
        /\ Truthy(args.price_gte) => products[i].price >= args.price_gte[1]
        /\ Truthy(args.price_lte) => products[i].price <= args.price_lte[1]
        /\ Truthy(args.stock_gte) => products[i].stock >= args.stock_gte[1]
        /\ Truthy(args.stock_lte) => products[i].stock <= args.stock_lte[1]
        /\ Truthy(args.low_stock) => products[i].stock < args.low_stock[1]}

\* Query.resolve_orders, lines 417-423: the total_amount filters.
ResolveOrders(args) ==
    {o \in DOMAIN orders :
        /\ Truthy(args.total_amount_gte) => orders[o].total_amount >= args.total_amount_gte[1]
        /\ Truthy(args.total_amount_lte) => orders[o].total_amount <= args.total_amount_lte[1]}

ProductsQuery(p, args) ==
    /\ Idle(p)
    /\ UNCHANGED heartbeat_log
    /\ resp' = [resp EXCEPT ![p] = [op |-> "products", args |-> args,
                                    result |-> ResolveProducts(args)]]
    /\ pc' = [pc EXCEPT ![p] = "done"]
    /\ req' = [req EXCEPT ![p] = NoReq]
    /\ UNCHANGED <<store, tx>>

OrdersQuery(p, args) ==
    /\ Idle(p)
    /\ UNCHANGED heartbeat_log
    /\ resp' = [resp EXCEPT ![p] = [op |-> "orders", args |-> args,
                                    result |-> ResolveOrders(args)]]
    /\ pc' = [pc EXCEPT ![p] = "done"]
    /\ req' = [req EXCEPT ![p] = NoReq]
    /\ UNCHANGED <<store, tx>>

\* The bounds queries are made with: absent, 0, and a seeded product's value.
PriceBounds == {Null, Some(0), Some(SeedPrice(2))}
StockBounds == {Null, Some(0), Some(SeedStock(1))}

ProductsArgs ==
    [price_gte : PriceBounds, price_lte : PriceBounds,
     stock_gte : StockBounds, stock_lte : StockBounds, low_stock : StockBounds]

OrdersArgs == [total_amount_gte : PriceBounds, total_amount_lte : PriceBounds]

NextQuery ==
    \/ \E p \in Single, args \in ProductsArgs : ProductsQuery(p, args)
    \/ \E p \in Single, args \in OrdersArgs : OrdersQuery(p, args)
    \/ \E p \in Single, input \in FaultProductInputs : CreateProduct(p, input)
    \/ \E p \in Single, cid \in CustomerIdInputs, ids \in FaultProductIdLists :
         CreateOrderValidate(p, cid, ids)
    \/ \E p \in Single : OrderCreateRow(p)
    \/ \E p \in Single : OrderSetProducts(p)
    \/ \E p \in Single : OrderSaveTotal(p)
    \/ \E p \in Single : OrderCommit(p)

\* The filtered queries over a store that products and orders are added to.
SpecQuery == Init /\ [][NextQuery]_vars

\* ---------------------------------------------------------------- heartbeat

\* What requests.post gives the job: an exception of requests, or a response
\* with a status code and a body.  The bodies: text that is no JSON, and the
\* JSON values {"errors": ...}, {"data": null}, {"data": {}} and
\* {"data": {"hello": ...}}.
Statuses == {200, 500}
Bodies == {"not_json", "no_data", "data_null", "data_without_hello", "data_hello"}
Responses == {[kind |-> "exception"]} \cup [kind : {"http"}, status : Statuses, body : Bodies]

AliveLine == <<"CRM is alive">>
ResponsiveLine == <<"GraphQL endpoint responsive">>
NoHelloLine == <<"GraphQL endpoint error: No hello field">>
HttpLine(status) == <<"GraphQL endpoint HTTP", status>>
UnreachableLine == <<"GraphQL endpoint unreachable">>
ErrorLine(e) == <<"HEARTBEAT ERROR", e>>

Written(line) == [line |-> Some(line), raised |-> Null]
Raises(e) == [line |-> Null, raised |-> Some(e)]

\* Lines 25-43, from the response to the line to write.  response.json() of
\* a body that is no JSON raises an exception that is a RequestException in
\* one release of requests and a plain ValueError in another; "'hello' in
\* result['data']" raises TypeError when data is null.
StatusOutcomes(response) ==
    IF response.kind = "exception" THEN {Written(UnreachableLine)}
    ELSE IF response.status # 200 THEN {Written(HttpLine(response.status))}
    ELSE CASE response.body = "not_json" ->
                  {Written(UnreachableLine), Raises("JSONDecodeError")}
           [] response.body = "no_data" -> {Written(NoHelloLine)}
           [] response.body = "data_null" -> {Raises("TypeError")}
           [] response.body = "data_without_hello" -> {Written(NoHelloLine)}
           [] response.body = "data_hello" -> {Written(ResponsiveLine)}

HeartbeatReturned == [op |-> "log_crm_heartbeat", returned |-> TRUE]

\* Lines 10-14: the alive line is appended.
HeartbeatAlive(p) ==
    /\ Idle(p)
    /\ Len(heartbeat_log) < MaxLogLines
    /\ heartbeat_log' = Append(heartbeat_log, AliveLine)
    /\ pc' = [pc EXCEPT ![p] = "hb_post"]
    /\ tx' = [tx EXCEPT ![p] = [op |-> "log_crm_heartbeat", response |-> Null, e |-> Null]]
    /\ req' = [req EXCEPT ![p] = NoReq]
    /\ resp' = [resp EXCEPT ![p] = NoResp]
    /\ UNCHANGED store

\* Lines 13-14 raise: the log cannot be opened or written.
HeartbeatAliveFault(p) ==
    /\ Idle(p)
    /\ Len(heartbeat_log) < MaxLogLines
    /\ pc' = [pc EXCEPT ![p] = "hb_error"]
    /\ tx' = [tx EXCEPT ![p] = [op |-> "log_crm_heartbeat", response |-> Null,
                                e |-> Some("OSError")]]
    /\ req' = [req EXCEPT ![p] = NoReq]
    /\ resp' = [resp EXCEPT ![p] = NoResp]
    /\ UNCHANGED <<store, heartbeat_log>>

\* Lines 17-23: the endpoint is contacted.
HeartbeatPost(p, response) ==
    /\ pc[p] = "hb_post"
    /\ tx' = [tx EXCEPT ![p].response = Some(response)]
    /\ pc' = [pc EXCEPT ![p] = "hb_status"]
    /\ UNCHANGED <<store, req, resp, heartbeat_log>>

\* Lines 25-45: the status line is appended, or an exception that is no
\* RequestException leaves the inner try.
HeartbeatStatus(p) ==
    /\ pc[p] = "hb_status"
    /\ \E outcome \in StatusOutcomes(tx[p].response[1]) :
         IF outcome.raised = Null
         THEN /\ heartbeat_log' = Append(heartbeat_log, outcome.line[1])
              /\ pc' = [pc EXCEPT ![p] = "done"]
              /\ tx' = [tx EXCEPT ![p] = NoTx]
              /\ resp' = [resp EXCEPT ![p] = HeartbeatReturned]
         ELSE /\ heartbeat_log' = heartbeat_log
              /\ pc' = [pc EXCEPT ![p] = "hb_error"]
              /\ tx' = [tx EXCEPT ![p].e = outcome.raised]
              /\ resp' = resp
    /\ UNCHANGED <<store, req>>

\* The write of the status line raises.
HeartbeatStatusFault(p) ==
    /\ pc[p] = "hb_status"
    /\ \E outcome \in StatusOutcomes(tx[p].response[1]) : outcome.raised = Null
    /\ pc' = [pc EXCEPT ![p] = "hb_error"]
    /\ tx' = [tx EXCEPT ![p].e = Some("OSError")]
    /\ UNCHANGED <<store, req, resp, heartbeat_log>>

\* Lines 47-51: the outer handler appends the error line.
HeartbeatError(p) ==
    /\ pc[p] = "hb_error"
    /\ heartbeat_log' = Append(heartbeat_log, ErrorLine(tx[p].e[1]))
    /\ pc' = [pc EXCEPT ![p] = "done"]
    /\ tx' = [tx EXCEPT ![p] = NoTx]
    /\ resp' = [resp EXCEPT ![p] = HeartbeatReturned]
    /\ UNCHANGED <<store, req>>

\* Lines 50-51 raise: the exception leaves the job.
HeartbeatErrorFault(p) ==
    /\ pc[p] = "hb_error"
    /\ pc' = [pc EXCEPT ![p] = "done"]
    /\ tx' = [tx EXCEPT ![p] = NoTx]
    /\ resp' = [resp EXCEPT ![p] = Raised("log_crm_heartbeat", "OSError")]
    /\ UNCHANGED <<store, req, heartbeat_log>>

NextHeartbeat ==
    \/ \E p \in Single : HeartbeatAlive(p)
    \/ \E p \in Single : HeartbeatAliveFault(p)
    \/ \E p \in Single, response \in Responses : HeartbeatPost(p, response)
    \/ \E p \in Single : HeartbeatStatus(p)
    \/ \E p \in Single : HeartbeatStatusFault(p)
    \/ \E p \in Single : HeartbeatError(p)
    \/ \E p \in Single : HeartbeatErrorFault(p)

\* The heartbeat job, one invocation after another.
SpecHeartbeat == Init /\ [][NextHeartbeat]_vars

\* ------------------------------------------------ claims: order workflow

TxSteps == {"order_create", "order_set", "order_total", "order_commit"}

\* The products the association table attaches to order o.
AttachedTo(rows, o) == {r[2] : r \in {x \in rows : x[1] = o}}

PriceSum(S) == SumOver([i \in S |-> products[i].price], S)

\* The precondition the specification states for a valid request.
ValidOrderRequest(cid, ids) ==
    /\ cid \in DOMAIN customers
    /\ ids # <<>>
    /\ Range(ids) \subseteq DOMAIN products

\* C1: a CreateOrder request with an existing customer and a non-empty list
\* of existing product ids passes validation, and when it commits with its
\* customer and products still in the store it returns success=true with a
\* stored and returned total_amount equal to the sum of the products' prices.
C1_ValidOrderTotalIsPriceSum ==
    [][\A p \in Procs :
         /\ \A cid \in CustomerIdInputs, ids \in ProductIdLists :
              (Idle(p) /\ ValidOrderRequest(cid, ids) /\ CreateOrderValidate(p, cid, ids))
                  => pc'[p] = "order_create"
         /\ (/\ pc[p] = "order_commit"
             /\ ValidOrderRequest(req[p].customer_id, req[p].product_ids)
             /\ OrderCommit(p))
                  => /\ resp'[p].success
                     /\ resp'[p].order # Null
                     /\ resp'[p].order[1].total_amount = PriceSum(Range(req[p].product_ids))
                     /\ resp'[p].order[1].id \in DOMAIN orders'
                     /\ orders'[resp'[p].order[1].id].total_amount
                            = PriceSum(Range(req[p].product_ids))
      ]_vars

\* C2: a CreateOrder request with an existing customer and a non-empty list
\* of existing product ids, repeated ids included, passes validation, and
\* when it commits with its customer and products still in the store the
\* products attached to the new order are the set of the input ids.
C2_DuplicateIdsCollapse ==
    [][\A p \in Procs :
         /\ \A cid \in CustomerIdInputs, ids \in ProductIdLists :
              (Idle(p) /\ ValidOrderRequest(cid, ids) /\ CreateOrderValidate(p, cid, ids))
                  => /\ pc'[p] = "order_create"
                     /\ resp'[p] = NoResp
         /\ (/\ pc[p] = "order_commit"
             /\ ValidOrderRequest(req[p].customer_id, req[p].product_ids)
             /\ OrderCommit(p))
                  => /\ resp'[p].success
                     /\ AttachedTo(order_products', tx[p].order.id)
                            = Range(req[p].product_ids)
      ]_vars

\* The call returned a rejection in this step and wrote nothing.
RejectedUnchanged(p) ==
    /\ pc'[p] = "done"
    /\ resp'[p].op = "CreateOrder"
    /\ resp'[p].order = Null
    /\ resp'[p].success = FALSE
    /\ orders' = orders
    /\ order_products' = order_products

\* C3: a CreateOrder request with a nonexistent customer id, a nonexistent
\* product id or an empty product list returns order=null and success=false,
\* and the Order rows and the association rows are those of before the call:
\* a step that is not such a return is not the handling of such a request.
C3_InvalidOrderRejected ==
    [][\A p \in Single :
         (Idle(p) /\ ~RejectedUnchanged(p)) =>
             ~\E cid \in CustomerIdInputs, ids \in ProductIdLists :
                 /\ ~ValidOrderRequest(cid, ids)
                 /\ CreateOrderValidate(p, cid, ids)
      ]_vars

\* A rejected request answered while the store holds an order.
C3_Witness ==
    \E p \in Procs :
        /\ resp[p].op = "CreateOrder"
        /\ resp[p].message = "Validation failed"
        /\ DOMAIN orders # {}
        /\ order_products # {}

\* The rules of step 1 and 2 a request violates.
ViolatedRules(cid, ids) ==
    (IF cid \notin DOMAIN customers THEN 1 ELSE 0)
    + (IF ids = <<>> THEN 1 ELSE 0)
    + (IF Range(ids) \ DOMAIN products # {} THEN 1 ELSE 0)

\* C4: validation does not short-circuit: the errors of a CreateOrder call
\* hold exactly one entry per violated rule (customer not found, products
\* not found, empty product list).
C4_OneErrorPerViolatedRule ==
    [][\A p \in Procs, cid \in CustomerIdInputs, ids \in ProductIdLists :
         (Idle(p) /\ CreateOrderValidate(p, cid, ids))
             => IF pc'[p] = "done"
                THEN Len(resp'[p].errors) = ViolatedRules(cid, ids)
                ELSE ViolatedRules(cid, ids) = 0
      ]_vars

\* C5: when a step of the commit sequence fails, no Order row and no
\* association row of that call is in the store, and the call returns
\* success=false, order=null and the fault's text in errors.
C5_FailedCommitLeavesNothing ==
    [][\A p \in Procs :
         (pc[p] \in TxSteps /\ pc'[p] = "done" /\ ~resp'[p].success)
             => /\ resp'[p].order = Null
                /\ resp'[p].errors \in {<< <<"StorageFault">> >>, << <<"IntegrityError">> >>}
                /\ tx[p] # NoTx =>
                     /\ tx[p].order.id \notin DOMAIN orders'
                     /\ AttachedTo(order_products', tx[p].order.id) = {}
      ]_vars

\* A call failed after its order row was created, with nothing deleted.
C5_Witness ==
    \E p \in Procs :
        /\ resp[p].op = "CreateOrder"
        /\ resp[p].errors = << <<"StorageFault">> >>
        /\ nextId.order > 1
        /\ DOMAIN orders = {}
        /\ DOMAIN customers = 1 .. NumCustomers
        /\ DOMAIN products = 1 .. NumProducts

\* C6: a reader never sees an intermediate state of a CreateOrder call: an
\* order row becomes visible in the step that commits the call, together
\* with all its association rows and its final total, and a visible order
\* row never changes its total or gains a product afterwards.
C6_NoIntermediateOrderVisible ==
    [][/\ \A o \in DOMAIN orders' \ DOMAIN orders :
            \E p \in Procs :
                /\ pc[p] = "order_commit"
                /\ pc'[p] = "done"
                /\ tx[p].order.id = o
                /\ orders'[o].total_amount = OrderTotal(tx[p])
                /\ AttachedTo(order_products', o) = DOMAIN tx[p].products
       /\ \A o \in DOMAIN orders' \cap DOMAIN orders :
            /\ orders'[o] = orders[o]
            /\ AttachedTo(order_products', o) \subseteq AttachedTo(order_products, o)
       /\ \A r \in order_products' : r[1] \in DOMAIN orders'
      ]_vars

\* A committed order of two products is visible.
C6_Witness ==
    \E o \in DOMAIN orders :
        /\ Cardinality(AttachedTo(order_products, o)) = 2
        /\ orders[o].total_amount = PriceSum(AttachedTo(order_products, o))

\* C7: CreateOrder never returns success=true with, and never persists, an
\* order whose attached products are fewer than the requested ids, whatever
\* is deleted between its validation and its commit.
C7_ExistenceRecheckedAtCommit ==
    [][\A p \in Procs :
         (pc[p] = "order_commit" /\ pc'[p] = "done" /\ resp'[p].success)
             => /\ AttachedTo(order_products', tx[p].order.id) = Range(req[p].product_ids)
                /\ AttachedTo(order_products', tx[p].order.id) # {}
      ]_vars

\* --------------------------------------------- claims: customer creation

RowsWithEmail(table, email) == {c \in DOMAIN table : table[c].email = email}

\* C8: a CreateCustomer request with the email of an existing Customer
\* returns customer=null and success=false with a uniqueness error in the
\* returned errors list, and the number of Customer rows is unchanged.
C8_DuplicateEmailRejected ==
    [][\A p \in Procs, v \in Copies, input \in CustomerInputs :
         (Idle(p) /\ EmailExists(input.email) /\ CreateCustomerValidate(p, v, input))
             => /\ resp'[p].customer = Null
                /\ resp'[p].success = FALSE
                /\ "errors" \in DOMAIN resp'[p]
                /\ <<"Email already exists">> \in Range(resp'[p].errors)
                /\ Cardinality(DOMAIN customers') = Cardinality(DOMAIN customers)
      ]_vars

\* C9: when two CreateCustomer calls with the same new email both pass the
\* email pre-check, one row with that email is created and the losing call
\* returns an envelope with success=false, customer=null and non-empty
\* errors; no two Customer rows ever share an email.
C9_ConcurrentSameEmail ==
    [][/\ \A p \in Procs :
            (pc[p] = "customer_create" /\ pc'[p] = "done")
                => IF EmailExists(req[p].input.email)
                   THEN /\ resp'[p].op = "CreateCustomer"
                        /\ resp'[p].success = FALSE
                        /\ resp'[p].customer = Null
                        /\ resp'[p].errors # <<>>
                        /\ customers' = customers
                   ELSE \/ /\ resp'[p].success
                           /\ Cardinality(RowsWithEmail(customers', req[p].input.email)) = 1
                        \/ /\ ~resp'[p].success
                           /\ customers' = customers
       /\ \A c, d \in DOMAIN customers' :
            customers'[c].email = customers'[d].email => c = d
      ]_vars

\* One call created the row and the other, past the pre-check, lost.
C9_Witness ==
    \E p, q \in Procs :
        /\ resp[p].op = "CreateCustomer"
        /\ resp[p].success
        /\ resp[q].op = "CreateCustomer"
        /\ resp[q].message = "Error creating customer"
        /\ resp[q].errors = << <<"IntegrityError">> >>
        /\ Cardinality(RowsWithEmail(customers, resp[p].customer[1].email)) = 1

\* --------------------------------------------------- claims: bulk creation

IsPrefix(s, t) == Len(s) <= Len(t) /\ \A i \in 1 .. Len(s) : s[i] = t[i]

\* C10: BulkCreateCustomers has partial-success semantics: each item, in
\* order, is either created or reported by one error labelled with its
\* position; a failing item neither stops the loop nor undoes what earlier
\* items created; an item with a new email and an acceptable phone is
\* created; the call returns all created customers, all errors and the
\* count of created customers.
C10_BulkPartialSuccess ==
    [][\A p \in Procs :
         /\ (pc[p] = "bulk_loop" /\ tx'[p] # tx[p] /\ pc'[p] = "bulk_loop")
              => /\ tx'[p].i = tx[p].i + 1
                 /\ IsPrefix(tx[p].created_customers, tx'[p].created_customers)
                 /\ IsPrefix(tx[p].errors, tx'[p].errors)
                 /\ \A c \in DOMAIN customers : c \in DOMAIN customers' /\ customers'[c] = customers[c]
                 /\ \/ /\ Len(tx'[p].created_customers) = Len(tx[p].created_customers) + 1
                       /\ tx'[p].errors = tx[p].errors
                       /\ Cardinality(DOMAIN customers') = Cardinality(DOMAIN customers) + 1
                       /\ LET c == tx'[p].created_customers[Len(tx'[p].created_customers)] IN
                            /\ c.id \in DOMAIN customers' \ DOMAIN customers
                            /\ customers'[c.id].email = c.email
                    \/ /\ tx'[p].created_customers = tx[p].created_customers
                       /\ Len(tx'[p].errors) = Len(tx[p].errors) + 1
                       /\ tx'[p].errors[Len(tx'[p].errors)][2] = tx[p].i + 1
                       /\ customers' = customers
         /\ \A input \in CustomerInputs :
              (/\ pc[p] = "bulk_loop"
               /\ ~EmailExists(input.email)
               /\ (PhoneGiven(input.phone) => PhoneMatches(input.phone[1]))
               /\ BulkItem(p, input))
                  => /\ Len(tx'[p].created_customers) = Len(tx[p].created_customers) + 1
                     /\ RowsWithEmail(customers', input.email) # {}
         /\ (pc[p] = "bulk_loop" /\ pc'[p] # "bulk_loop")
              => /\ pc'[p] = "done"
                 /\ resp'[p].customers = tx[p].created_customers
                 /\ resp'[p].errors = tx[p].errors
                 /\ resp'[p].success_count = Len(tx[p].created_customers)
                 /\ Len(resp'[p].customers) + Len(resp'[p].errors) = tx[p].i
                 /\ customers' = customers
      ]_vars

\* Three items of which only the second reuses an existing email: two
\* created customers, one error for item 2, success_count 2.
C10_Witness ==
    \E p \in Procs :
        /\ resp[p].op = "BulkCreateCustomers"
        /\ Len(resp[p].customers) = 2
        /\ Len(resp[p].errors) = 1
        /\ resp[p].errors[1][2] = 2
        /\ resp[p].errors[1][3] = "Email"
        /\ resp[p].success_count = 2
        /\ \A i \in 1 .. 2 : RowsWithEmail(customers, resp[p].customers[i].email) # {}

\* The emails of the customers a batch has created so far.
CreatedEmails(t) == {t.created_customers[k].email : k \in DOMAIN t.created_customers}

\* C11: in BulkCreateCustomers an item's email is checked against the store
\* as it is when the item is processed: an item carrying the email of a
\* customer the same batch created earlier is rejected with an email-exists
\* error and creates nothing, an item that is created carries an email no
\* stored customer has, and no two stored customers share an email.
C11_BulkEmailCheckedPerItem ==
    [][\A p \in Single :
         /\ \A input \in CustomerInputs :
              (/\ pc[p] = "bulk_loop"
               /\ input.email \in CreatedEmails(tx[p])
               /\ BulkItem(p, input))
                  => /\ customers' = customers
                     /\ tx'[p].created_customers = tx[p].created_customers
                     /\ tx'[p].errors = Append(tx[p].errors,
                            <<"Customer", tx[p].i + 1, "Email", input.email, "already exists">>)
         /\ (pc[p] = "bulk_loop" /\ customers' # customers)
              => \A c \in DOMAIN customers' \ DOMAIN customers :
                     RowsWithEmail(customers, customers'[c].email) = {}
         /\ \A c, d \in DOMAIN customers' :
              customers'[c].email = customers'[d].email => c = d
      ]_vars

\* A batch whose first item was created and whose second item, with the
\* same email, was rejected.
C11_Witness ==
    \E p \in Single :
        /\ resp[p].op = "BulkCreateCustomers"
        /\ Len(resp[p].customers) = 1
        /\ Len(resp[p].errors) = 1
        /\ resp[p].errors[1] = <<"Customer", 2, "Email", resp[p].customers[1].email,
                                 "already exists">>
        /\ Cardinality(RowsWithEmail(customers, resp[p].customers[1].email)) = 1

\* ------------------------------------------- claims: customer validation

\* The errors a loop turn of the batch appended.
NewErrors(t, u) == {u.errors[k] : k \in Len(t.errors) + 1 .. Len(u.errors)}

\* C12: validation aggregates every failing rule on the single and on the
\* bulk path: a candidate that reuses an existing email and has an invalid
\* phone gets both failures reported, two entries in the errors of
\* CreateCustomer, both reasons for that item in BulkCreateCustomers.
C12_AllFailingRulesReported ==
    [][\A p \in Single, input \in CustomerInputs :
         (/\ RowsWithEmail(customers, input.email) # {}
          /\ PhoneGiven(input.phone)
          /\ ~PhoneMatches(input.phone[1]))
             => /\ \A v \in Copies :
                     (Idle(p) /\ CreateCustomerValidate(p, v, input))
                         => /\ "errors" \in DOMAIN resp'[p]
                            /\ Len(resp'[p].errors) = 2
                            /\ <<"Email already exists">> \in Range(resp'[p].errors)
                            /\ <<"Invalid phone format. Use +1234567890 or 123-456-7890">>
                                   \in Range(resp'[p].errors)
                /\ (pc[p] = "bulk_loop" /\ BulkItem(p, input))
                     => /\ \E e \in NewErrors(tx[p], tx'[p]) :
                               e[2] = tx[p].i + 1 /\ e[3] = "Email"
                        /\ \E e \in NewErrors(tx[p], tx'[p]) :
                               e[2] = tx[p].i + 1 /\ e[3] = "Invalid phone format"
      ]_vars

PhoneFormatError == <<"Invalid phone format. Use +1234567890 or 123-456-7890">>

\* C13: CreateCustomer fails with a phone-format error and creates no row
\* exactly when the phone is present, non-empty and does not match the
\* pattern; with an absent, empty or matching phone no phone-format error is
\* returned and a request with a new email goes on to create its row.
C13_PhoneFormatChecked ==
    [][\A p \in Procs, v \in Copies, input \in CustomerInputs :
         (Idle(p) /\ CreateCustomerValidate(p, v, input))
             => IF input.phone # Null /\ input.phone[1] # <<>> /\ ~PhoneMatches(input.phone[1])
                THEN /\ pc'[p] = "done"
                     /\ resp'[p].success = FALSE
                     /\ resp'[p].customer = Null
                     /\ "errors" \in DOMAIN resp'[p]
                     /\ PhoneFormatError \in Range(resp'[p].errors)
                     /\ customers' = customers
                ELSE /\ ("errors" \in DOMAIN resp'[p])
                           => PhoneFormatError \notin Range(resp'[p].errors)
                     /\ RowsWithEmail(customers, input.email) = {}
                           => pc'[p] = "customer_create"
      ]_vars

\* ------------------------------------------------------- claims: faults

\* The step is a fault of the storage layer met by a single-result mutation.
StorageFaultStep(p) ==
    \/ CreateCustomerReadFault(p)
    \/ CreateCustomerFault(p)
    \/ CreateOrderReadFault(p)
    \/ OrderFault(p)
    \/ \E input \in FaultProductInputs : CreateProductFault(p, input)

\* C14: every mutation returns its result envelope on every path and lets no
\* exception leave it: a fault of the storage layer, raised by a read of the
\* validation phase or by a write, is reported as success=false with the
\* fault's text in errors (by BulkCreateCustomers, as an error of the item).
C14_EnvelopeOnEveryPath ==
    [][\A p \in Single :
         /\ resp'[p] # NoResp => "raised" \notin DOMAIN resp'[p]
         /\ StorageFaultStep(p)
              => /\ "success" \in DOMAIN resp'[p]
                 /\ resp'[p].success = FALSE
                 /\ "errors" \in DOMAIN resp'[p]
                 /\ <<"StorageFault">> \in Range(resp'[p].errors)
         /\ BulkItemFault(p)
              => /\ pc'[p] = "bulk_loop"
                 /\ tx'[p].errors = Append(tx[p].errors,
                                           <<"Customer", tx[p].i + 1, "StorageFault">>)
      ]_vars

\* ------------------------------------------- claims: rejected orders

\* The step returned a validation failure of CreateOrder.
ValidationFailed(p) ==
    /\ pc'[p] = "done"
    /\ resp'[p].op = "CreateOrder"
    /\ resp'[p].success = FALSE
    /\ resp'[p].message = "Validation failed"

\* The same request, handled again in the state the step left, fails with
\* the same set of errors as the step returned.
RepeatsAlike(p, cid, ids) ==
    /\ Idle(p)'
    /\ OrderErrors(cid, ids)' # <<>>
    /\ Range(OrderErrors(cid, ids)') = Range(resp'[p].errors)

\* C15: a failed CreateOrder call is free of side effects and repeatable: in
\* no state can the handling of a request fail and change the customers,
\* products, orders or associations, or leave a state in which the same
\* request is answered with another set of errors.
C15_FailedOrderRepeatable ==
    \A p \in {q \in Single : Idle(q)}, cid \in CustomerIdInputs, ids \in ProductIdLists :
        ~ENABLED (/\ CreateOrderValidate(p, cid, ids)
                  /\ ValidationFailed(p)
                  /\ ~(/\ customers' = customers
                       /\ products' = products
                       /\ orders' = orders
                       /\ order_products' = order_products
                       /\ RepeatsAlike(p, cid, ids)))

\* A rejected call answered, with an order in the store.
C15_Witness ==
    \E p \in Single :
        /\ pc[p] = "done"
        /\ resp[p].op = "CreateOrder"
        /\ resp[p].message = "Validation failed"
        /\ Len(resp[p].errors) = 2
        /\ DOMAIN orders # {}

\* C16: CreateOrder with a customer id that does not exist and a non-empty
\* product list whose ids all exist returns success=false, order=null and
\* exactly the one error "Customer with ID <id> does not exist", and
\* persists no order row.
C16_UnknownCustomerError ==
    [][\A p \in Single, cid \in CustomerIdInputs, ids \in ProductIdLists :
         (/\ Idle(p)
          /\ cid \notin DOMAIN customers
          /\ ids # <<>>
          /\ Range(ids) \subseteq DOMAIN products
          /\ CreateOrderValidate(p, cid, ids))
             => /\ pc'[p] = "done"
                /\ resp'[p].success = FALSE
                /\ resp'[p].order = Null
                /\ resp'[p].errors = << <<"Customer with ID", cid, "does not exist">> >>
                /\ orders' = orders
                /\ order_products' = order_products
      ]_vars

\* The products-not-found errors of the response the step returned.
ProductsNotFound(p) ==
    IF pc'[p] = "done"
    THEN {e \in Range(resp'[p].errors) : e[1] = "Products with IDs"}
    ELSE {}

\* C17: when CreateOrder rejects a request because some product ids do not
\* exist, the products-not-found error names exactly the requested ids
\* absent from the Product table: in no state can a request with an absent
\* id be handled without one such error naming the input ids minus the
\* existing ids, a non-empty set with no existing id in it; and no
\* products-not-found error names other ids than these.
C17_MissingIdsNamed ==
    \A p \in {q \in Single : Idle(q)}, cid \in CustomerIdInputs, ids \in ProductIdLists :
        LET missing == {i \in Range(ids) : i \notin DOMAIN products} IN
        ~ENABLED (/\ CreateOrderValidate(p, cid, ids)
                  /\ ~(/\ \A e \in ProductsNotFound(p) : e[2] = missing
                       /\ missing # {} =>
                            /\ pc'[p] = "done"
                            /\ resp'[p].success = FALSE
                            /\ ProductsNotFound(p)
                                   = {<<"Products with IDs", missing, "do not exist">>}
                            /\ missing \cap DOMAIN products' = {}))

\* A request was rejected for the id of a product that had been deleted.
C17_Witness ==
    \E p \in Single :
        /\ pc[p] = "done"
        /\ resp[p].op = "CreateOrder"
        /\ resp[p].success = FALSE
        /\ \E e \in Range(resp[p].errors) :
               /\ e[1] = "Products with IDs"
               /\ e[2] # {}
               /\ e[2] \subseteq 1 .. NumProducts
               /\ e[2] \cap DOMAIN products = {}

\* ------------------------------------------------------ claims: products

\* The rules of CreateProduct an input violates.
ViolatedProductRules(input) ==
    (IF input.price <= 0 THEN {<<"Price must be positive">>} ELSE {})
    \cup (IF input.stock # Null /\ input.stock[1] < 0
          THEN {<<"Stock cannot be negative">>} ELSE {})

\* C18: CreateProduct rejects a request, with product=null, success=false
\* and no Product row created, exactly when price <= 0 or stock is present
\* and < 0, with one error per violated rule; otherwise it creates the
\* product, with stock 0 when stock is absent.
C18_ProductRulesChecked ==
    [][\A p \in Single, input \in ProductInputs :
         (Idle(p) /\ CreateProduct(p, input))
             => IF ViolatedProductRules(input) # {}
                THEN /\ resp'[p].product = Null
                     /\ resp'[p].success = FALSE
                     /\ products' = products
                     /\ Len(resp'[p].errors) = Cardinality(ViolatedProductRules(input))
                     /\ Range(resp'[p].errors) = ViolatedProductRules(input)
                ELSE /\ resp'[p].success
                     /\ resp'[p].errors = <<>>
                     /\ resp'[p].product # Null
                     /\ \A i \in DOMAIN products : i \in DOMAIN products' /\ products'[i] = products[i]
                     /\ DOMAIN products' \ DOMAIN products = {resp'[p].product[1].id}
                     /\ products'[resp'[p].product[1].id].stock
                            = (IF input.stock = Null THEN 0 ELSE input.stock[1])
                     /\ resp'[p].product[1].stock = products'[resp'[p].product[1].id].stock
      ]_vars

\* A product created with stock 5, and one created without a stock and
\* stored with stock 0.
C18_Witness ==
    \E p \in Single :
        /\ resp[p].op = "CreateProduct"
        /\ resp[p].success
        /\ NumProducts + 2 \in DOMAIN products
        /\ products[NumProducts + 2].stock = 0
        /\ products[NumProducts + 1].stock = 5

\* C19: after any sequence of CreateProduct calls every stored Product has,
\* at the stored precision of 2 fraction digits, a price strictly greater
\* than 0, and a stock >= 0.
C19_StoredProductsPositive ==
    \A i \in DOMAIN products :
        /\ products[i].price > 0
        /\ products[i].stock >= 0

\* ------------------------------------------------- claims: stored emails

\* C20: after any sequence of CreateCustomer and BulkCreateCustomers calls
\* every stored Customer's email contains "@".
C20_StoredEmailsHaveAt ==
    \A c \in DOMAIN customers : "@" \in Range(customers[c].email)

\* ------------------------------------------- claims: ownership and totals

\* C21: in every reachable state of the store under CreateOrder, Customer
\* deletion and Product deletion, every persisted Order references an
\* existing Customer and has a non-empty set of associated Products.
C21_OrdersOwnedAndNonEmpty ==
    \A o \in DOMAIN orders :
        /\ orders[o].customer \in DOMAIN customers
        /\ AttachedTo(order_products, o) # {}

C23_TotalIsSnapshot ==
    [][/\ \A o \in DOMAIN orders :
            o \in DOMAIN orders' /\ orders'[o].total_amount = orders[o].total_amount
       /\ \A p \in Single :
            (pc[p] = "order_commit" /\ pc'[p] = "done" /\ resp'[p].success)
                => /\ tx[p].order.id \in DOMAIN orders' \ DOMAIN orders
                   /\ orders'[tx[p].order.id].total_amount
                          = SumOver([i \in DOMAIN tx[p].products |-> tx[p].products[i].price],
                                    {r[2] : r \in tx[p].rows})
      ]_vars

\* A committed order keeps its product, whose price was changed since: the
\* stored total is the old price, not the current one.
C23_Witness ==
    \E o \in DOMAIN orders :
        /\ AttachedTo(order_products, o) # {}
        /\ \E i \in AttachedTo(order_products, o) : products[i].price \in NewPrices
        /\ orders[o].total_amount # PriceSum(AttachedTo(order_products, o))
        /\ \E p \in Single : resp[p].success /\ resp[p].order[1].total_amount = orders[o].total_amount

\* C24: two CreateOrder calls that run concurrently, each valid and
\* referencing disjoint sets of existing products, both succeed in every
\* interleaving, and each resulting order has exactly its own requested
\* products attached and a total_amount equal to the sum of its own
\* products' prices.
C24_ConcurrentDisjointOrders ==
    [][\A p \in Procs :
         (resp'[p] # resp[p] /\ resp'[p].op = "CreateOrder")
             => /\ resp'[p].success
                /\ LET o == resp'[p].order[1]
                       own == Range(req[p].product_ids) IN
                     /\ o.id \in DOMAIN orders'
                     /\ AttachedTo(order_products', o.id) = own
                     /\ orders'[o.id].total_amount = PriceSum(own)
                     /\ o.total_amount = PriceSum(own)
      ]_vars

\* ------------------------------------------------- claims: bulk outcomes

\* The rows a batch has added so far: the latest ids the store gave out.
AddedRows(t) == {c \in DOMAIN customers : c >= nextId.customer - Len(t.created_customers)}

\* C25: in every BulkCreateCustomers call each input item contributes
\* exactly one outcome, a created customer or an error entry: the created
\* customers and the errors together number the items processed, the
\* created customers stand in input order and are the rows the call added
\* to the store, one each, and the call returns these lists with
\* success_count the length of the customers list.
C25_OneOutcomePerItem ==
    \A p \in Single :
        pc[p] = "bulk_loop"
            => LET created == tx[p].created_customers IN
                 /\ Len(created) + Len(tx[p].errors) = tx[p].i
                 /\ \A k \in 1 .. Len(created) - 1 : created[k].id < created[k + 1].id
                 /\ {created[k].id : k \in DOMAIN created} = AddedRows(tx[p])
                 /\ Cardinality(AddedRows(tx[p])) = Len(created)
                 /\ Cardinality(DOMAIN customers) = nextId.customer - 1
                 /\ ~ENABLED (/\ BulkReturn(p)
                              /\ ~(/\ resp'[p].customers = created
                                   /\ resp'[p].errors = tx[p].errors
                                   /\ resp'[p].success_count = Len(resp'[p].customers)
                                   /\ Len(resp'[p].customers) + Len(resp'[p].errors) = tx[p].i
                                   /\ customers' = customers))

\* A batch of three items returned: the first and the third were reported,
\* the second was created.
C25_Witness ==
    \E p \in Single :
        /\ resp[p].op = "BulkCreateCustomers"
        /\ resp[p].success_count = 1
        /\ Len(resp[p].customers) = 1
        /\ Len(resp[p].errors) = 2
        /\ resp[p].errors[1][2] = 1
        /\ resp[p].errors[2][2] = 3
        /\ resp[p].customers[1].id \in DOMAIN customers

\* ------------------------------------------------ claims: order effects

\* C26: a successful CreateOrder adds exactly one Order row, owned by the
\* requested customer, plus that order's association rows, and changes
\* nothing else: every Customer, every Product with its price and stock and
\* every earlier Order with its product set and total_amount is the same
\* after the call's steps as before them.
C26_SuccessfulOrderFrame ==
    [][\A p \in Procs :
         /\ (pc'[p] # pc[p] /\ ~(pc'[p] = "done" /\ resp'[p].success))
              => /\ customers' = customers /\ products' = products
                 /\ orders' = orders /\ order_products' = order_products
         /\ (pc[p] = "order_commit" /\ pc'[p] = "done" /\ resp'[p].success)
              => /\ customers' = customers
                 /\ products' = products
                 /\ \E id \in DOMAIN orders' \ DOMAIN orders :
                      /\ DOMAIN orders' = DOMAIN orders \cup {id}
                      /\ resp'[p].order[1].id = id
                      /\ orders'[id].customer = req[p].customer_id
                      /\ {r \in order_products' : r[1] # id} = order_products
                      /\ AttachedTo(order_products', id) # {}
                 /\ \A o \in DOMAIN orders :
                      /\ orders'[o] = orders[o]
                      /\ AttachedTo(order_products', o) = AttachedTo(order_products, o)
      ]_vars

\* Both calls have succeeded: the store holds the two orders, each with the
\* products of its own request.
C26_Witness ==
    /\ Cardinality(DOMAIN orders) = 2
    /\ \A p \in Procs :
         /\ resp[p].op = "CreateOrder"
         /\ resp[p].success
         /\ resp[p].order[1].id \in DOMAIN orders
    /\ resp["r1"].order[1].id # resp["r2"].order[1].id
    /\ \A o \in DOMAIN orders : AttachedTo(order_products, o) # {}

\* ------------------------------------------------------- claims: queries

Supplied(x) == x # Null

\* The products satisfying all supplied bounds.
ProductsWithin(args) ==
    {i \in DOMAIN products :
        /\ Supplied(args.price_gte) => products[i].price >= args.price_gte[1]
        /\ Supplied(args.price_lte) => products[i].price <= args.price_lte[1]
        /\ Supplied(args.stock_gte) => products[i].stock >= args.stock_gte[1]
        /\ Supplied(args.stock_lte) => products[i].stock <= args.stock_lte[1]
        /\ Supplied(args.low_stock) => products[i].stock < args.low_stock[1]}

OrdersWithin(args) ==
    {o \in DOMAIN orders :
        /\ Supplied(args.total_amount_gte) => orders[o].total_amount >= args.total_amount_gte[1]
        /\ Supplied(args.total_amount_lte) => orders[o].total_amount <= args.total_amount_lte[1]}

\* C27: the products query applies every supplied numeric bound, 0
\* included: its result is exactly the set of products satisfying all
\* supplied bounds (stock_lte = 0 gives only the products with stock 0,
\* low_stock = 0 gives none); the orders query does the same with
\* total_amount_gte and total_amount_lte.
C27_ZeroBoundsApplied ==
    [][\A p \in Single :
         /\ \A args \in ProductsArgs :
              ProductsQuery(p, args) => resp'[p].result = ProductsWithin(args)
         /\ \A args \in OrdersArgs :
              OrdersQuery(p, args) => resp'[p].result = OrdersWithin(args)
      ]_vars

\* ----------------------------------------------------- claims: heartbeat

\* The status line the endpoint's outcome calls for.
ClaimedStatusLine(response) ==
    IF response.kind = "exception" THEN UnreachableLine
    ELSE IF response.status # 200 THEN HttpLine(response.status)
    ELSE IF response.body = "data_hello" THEN ResponsiveLine
    ELSE NoHelloLine

LastLine(log) == log[Len(log)]

\* C28: every invocation of log_crm_heartbeat whose log writes succeed
\* appends first one "CRM is alive" line, before the endpoint is contacted
\* and whatever its outcome, and then one endpoint status line: responsive
\* for HTTP 200 with data.hello, "No hello field" for HTTP 200 without it,
\* "HTTP <status>" for another status, "unreachable" for a request exception.
C28_HeartbeatLines ==
    [][\A p \in Single :
         /\ (Idle(p) /\ pc'[p] = "hb_post")
              => heartbeat_log' = Append(heartbeat_log, AliveLine)
         /\ (pc[p] = "hb_post" /\ pc'[p] # "hb_post")
              => /\ heartbeat_log' = heartbeat_log
                 /\ heartbeat_log # <<>>
                 /\ LastLine(heartbeat_log) = AliveLine
         /\ (/\ pc[p] \in {"hb_status", "hb_error"}
             /\ pc'[p] = "done"
             /\ tx[p].e # Some("OSError")
             /\ heartbeat_log' # heartbeat_log)
              => /\ LastLine(heartbeat_log) = AliveLine
                 /\ heartbeat_log' = Append(heartbeat_log,
                                            ClaimedStatusLine(tx[p].response[1]))
      ]_vars

====
